---- MODULE Spec2Model ----
(***************************************************************************)
(* Path traversal state of WebCore (PathTraversalState.cpp): the segment   *)
(* operations moveTo, lineTo, quadraticBezierTo, cubicBezierTo and         *)
(* closeSubpath, and the adaptive subdivision curveLength they share.      *)
(* The timing registers of the Intel SCH PATA controller (pata_sch.c) are  *)
(* a second machine, with its own specification SpecSch.                   *)
(*                                                                         *)
(* Numbers.  The source computes in IEEE single precision.  Here every     *)
(* coordinate and every length is a fixed-point number, an integer count   *)
(* of 1/Unit: sqrtf rounds to the nearest integer, a halving rounds a tie  *)
(* to the even neighbour, sums and differences are exact.  Rounding        *)
(* therefore happens where it happens in the source (after a square root,  *)
(* after a halving), by an absolute half unit instead of a relative half   *)
(* unit in the last place.  The tolerance, 0.00001f, is 20 units: the      *)
(* input points lie on a grid of Grid units, so that the curves are some   *)
(* hundred tolerances across and a rounding error is small against the     *)
(* tolerance, as it is in the source for coordinates around 100.           *)
(***************************************************************************)
EXTENDS Integers, Sequences, FiniteSets

(***************************************************************************)
(* Bounds of the model.                                                    *)
(***************************************************************************)
\* Fixed-point resolution: the number of model units in 1.0f.
Unit == 2097152
\* Spacing, in units, of the grid the input points lie on.
Grid == 512
\* Segments of a path.
MaxSegs == 3
\* Segments of a path of lines only.
MaxLineSegs == 4
\* Curve operations in one traversal.
MaxCurves == 1
\* Largest size of curveStack the subdivision may reach.
MaxStack == 8
\* desiredLength ranges over 0 .. MaxDesired steps of two grid spacings.
MaxDesired == 2

(***************************************************************************)
(* Inputs.                                                                 *)
(***************************************************************************)
\* The points moveTo and lineTo are given.
Points == {<<0, 0>>, <<3 * Grid, 0>>, <<3 * Grid, 4 * Grid>>}
\* The control points and the end points the curve operations are given.
Controls == {<<0, 0>>, <<Grid, Grid>>}
Ends == {<<0, 0>>, <<7 * Grid, 7 * Grid>>}
DesiredLengths == {2 * Grid * k : k \in 0..MaxDesired}

Actions == {"TraversalTotalLength", "TraversalPointAtLength",
            "TraversalNormalAngleAtLength"}

(***************************************************************************)
(* pata_sch.c: registers, masks and transfer modes.  A 32-bit value is the *)
(* set of the positions, 0 to 31, of its bits that are 1: & is the         *)
(* intersection, | the union, ~ the complement in 0..31, and << moves the  *)
(* positions up and drops those past 31.                                   *)
(***************************************************************************)
\* Calls of sch_set_piomode and sch_set_dmamode in one run.
MaxCalls == 2

WordBits == 0..31

\* The bits of the number n, 0 <= n < 2^16.
BitsOf(n) == {i \in 0..15 : (n \div (2 ^ i)) % 2 = 1}

ShiftLeft(w, k) == {i + k : i \in w} \cap WordBits
BitNot(w) == WordBits \ w

\* Device 0 and Device 1 Timing Register.
D0TIM == 128
D1TIM == 132
\* The masks of the enum: PIO mode, multi-word DMA mode, Ultra DMA mode,
\* prefetch/post enable, use synchronous DMA.
PM == BitsOf(7)
MDM == ShiftLeft(BitsOf(3), 8)
UDM == ShiftLeft(BitsOf(7), 16)
PPE == ShiftLeft(BitsOf(1), 30)
USD == ShiftLeft(BitsOf(1), 31)

\* The transfer modes of linux/ata.h the driver subtracts and compares.
XFER_PIO_0 == 8
XFER_MW_DMA_0 == 32
XFER_UDMA_0 == 64
\* The modes sch_port_info allows: PIO 0-4, MWDMA 0-2, UDMA 0-5.
PioModes == {XFER_PIO_0 + p : p \in 0..4}
DmaModes == {XFER_MW_DMA_0 + m : m \in 0..2}
                \cup {XFER_UDMA_0 + k : k \in 0..5}
\* adev->class of a device that is present.
Classes == {"ATA_DEV_ATA", "ATA_DEV_ATAPI"}
\* adev->devno.
Devices == {0, 1}

\* The values a timing register may hold when the driver is first called:
\* all bits 0, all bits 1, and two mixed values that between them have
\* every field partly set and reserved bits set and clear.
RegisterValues ==
    {{}, WordBits,
     {0, 2, 4, 9, 12, 17, 21, 30},
     {1, 3, 8, 16, 18, 25, 29, 31}}

NoCall == [name |-> "none"]

(***************************************************************************)
(* Arithmetic.                                                             *)
(***************************************************************************)
\* (a + b) / 2.0f, a tie rounded to the even neighbour.
Half(n) ==
    LET h == n \div 2
    IN  IF n % 2 = 0 THEN h ELSE IF h % 2 = 0 THEN h ELSE h + 1

RECURSIVE SqrtBits(_, _, _)
SqrtBits(n, r, b) ==
    IF b = 0 THEN r
    ELSE LET t == r + b
         IN  SqrtBits(n, IF t <= 46340 /\ t * t <= n THEN t ELSE r,
                      b \div 2)

\* sqrtf: the integer nearest to the square root of n (0 <= n < 2^31).
sqrtf(n) ==
    LET r == SqrtBits(n, 0, 32768)
    IN  IF n - r * r > r THEN r + 1 ELSE r

kPathSegmentLengthTolerance == Unit \div 100000

midPoint(first, second) ==
    <<Half(first[1] + second[1]), Half(first[2] + second[2])>>

\* distanceLine without the squares: the signed sum of the two differences.
distanceLineSigned(start, end) ==
    (end[1] - start[1]) + (end[2] - start[2])

distanceLine(start, end) ==
    sqrtf((end[1] - start[1]) * (end[1] - start[1])
          + (end[2] - start[2]) * (end[2] - start[2]))

(***************************************************************************)
(* Curve primitives.                                                       *)
(***************************************************************************)
QuadraticBezier(s, c, e) ==
    [kind |-> "quadratic", start |-> s, control |-> c, end |-> e]

CubicBezier(s, c1, c2, e) ==
    [kind |-> "cubic", start |-> s, control1 |-> c1, control2 |-> c2, end |-> e]

QuadraticApproximateDistance(q) ==
    distanceLine(q.start, q.control) + distanceLine(q.control, q.end)

CubicApproximateDistance(c) ==
    distanceLine(c.start, c.control1) + distanceLine(c.control1, c.control2)
    + distanceLine(c.control2, c.end)

\* split: <<left, right>>
QuadraticSplit(q) ==
    LET leftControl == midPoint(q.start, q.control)
        rightControl == midPoint(q.control, q.end)
        leftControlToRightControl == midPoint(leftControl, rightControl)
    IN  <<QuadraticBezier(q.start, leftControl, leftControlToRightControl),
          QuadraticBezier(leftControlToRightControl, rightControl, q.end)>>

\* CubicSplit with one level of averaging left out of the left half.
CubicSplitSkippingLevel(c) ==
    LET startToControl1 == midPoint(c.control1, c.control2)
        leftControl1 == midPoint(c.start, c.control1)
        leftControl2 == startToControl1
        rightControl2 == midPoint(c.control2, c.end)
        rightControl1 == midPoint(rightControl2, startToControl1)
        leftControl2ToRightControl1 == midPoint(leftControl2, rightControl1)
    IN  <<CubicBezier(c.start, leftControl1, leftControl2,
                      leftControl2ToRightControl1),
          CubicBezier(leftControl2ToRightControl1, rightControl1,
                      rightControl2, c.end)>>

CubicSplit(c) ==
    LET startToControl1 == midPoint(c.control1, c.control2)
        leftControl1 == midPoint(c.start, c.control1)
        leftControl2 == midPoint(leftControl1, startToControl1)
        rightControl2 == midPoint(c.control2, c.end)
        rightControl1 == midPoint(rightControl2, startToControl1)
        leftControl2ToRightControl1 == midPoint(leftControl2, rightControl1)
    IN  <<CubicBezier(c.start, leftControl1, leftControl2,
                      leftControl2ToRightControl1),
          CubicBezier(leftControl2ToRightControl1, rightControl1,
                      rightControl2, c.end)>>

\* The length of a piece taken as the distance between its two ends.
chordDistance(c) == distanceLine(c.start, c.end)

approximateDistance(c) ==
    IF c.kind = "quadratic" THEN QuadraticApproximateDistance(c)
    ELSE CubicApproximateDistance(c)

split(c) ==
    IF c.kind = "quadratic" THEN QuadraticSplit(c) ELSE CubicSplit(c)

\* The test of curveLength's loop: the piece is split further.
\* The flatness test with no tolerance left to the difference.
NeedsSplitWithoutTolerance(c) ==
    approximateDistance(c) - distanceLine(c.start, c.end) >= 0

\* The flatness test of a loop that takes every piece for flat.
NeedsSplitNever(c) == FALSE

NeedsSplit(c) ==
    approximateDistance(c) - distanceLine(c.start, c.end)
        > kPathSegmentLengthTolerance

IsPointOrAngle(a) ==
    a \in {"TraversalPointAtLength", "TraversalNormalAngleAtLength"}

(***************************************************************************)
(* State.                                                                  *)
(***************************************************************************)
VARIABLES
    \* PathTraversalState's fields
    m_action, m_success, m_totalLength, m_segmentIndex, m_desiredLength,
    m_normalAngle, m_current, m_start, m_control1, m_control2, m_previous,
    \* where the traversal is: "idle" (between segments), "curveLength" (in
    \* the subdivision loop), "curveReturn" (curveLength has returned to the
    \* curve operation), "returned" (the operation has returned to the path
    \* iterator), "done" (the traversal is over)
    pc,
    \* the operation running or just run, its arguments and its result
    op, args, ret,
    \* curveLength's locals
    curve, curveStack, totalLength,
    \* history: the point fields before the operation began
    pre,
    \* history: the flat pieces curveLength has measured in this run, each
    \* with the value of totalLength after it, and the splits it has made
    measured, splits,
    \* history: whether curveLength left through the return inside the loop
    early,
    \* the path: whether it is made of lines only (moveTo, lineTo,
    \* closeSubpath)
    linesOnly,
    \* history: the piece the last step of curveLength split, if it split
    parent,
    \* history: operations and curve operations issued; the operation
    \* before the one running or just run, its arguments and its result
    nSegs, nCurves, prev,
    \* history: the length of the segments issued so far, each measured in
    \* full (as a TraversalTotalLength pass measures it)
    pathLength,
    \* pata_sch.c: the two timing registers in the PCI configuration space
    \* of the controller, each the set of the positions of its bits that
    \* are 1
    timing,
    \* history: the last call of sch_set_piomode or sch_set_dmamode, with
    \* the registers as they were before it, and the calls made
    call, nCalls,
    \* history: for each device, the last call of sch_set_piomode for it
    lastPio

fields == <<m_action, m_success, m_totalLength, m_segmentIndex,
            m_desiredLength, m_normalAngle, m_current, m_start, m_control1,
            m_control2, m_previous>>
locals == <<curve, curveStack, totalLength>>
history == <<pre, measured, splits, early, parent, nSegs, nCurves, prev,
             pathLength>>
path == <<fields, pc, op, args, ret, locals, linesOnly, history>>
sch == <<timing, call, nCalls, lastPio>>
vars == <<path, sch>>

NoCurve == [kind |-> "none"]

\* FloatPoint(): the origin.
FloatPoint == <<0, 0>>

PointFields ==
    [current |-> m_current, start |-> m_start, control1 |-> m_control1,
     control2 |-> m_control2, previous |-> m_previous]

(***************************************************************************)
(* Construction: PathTraversalState(action), after which the owner sets    *)
(* desiredLength for a point or angle query.                               *)
(***************************************************************************)
Constructed ==
    /\ m_action \in Actions
    /\ m_success = FALSE
    /\ m_totalLength = 0
    /\ m_segmentIndex = 0
    /\ m_desiredLength \in
           (IF IsPointOrAngle(m_action) THEN DesiredLengths ELSE {0})
    /\ m_normalAngle = 0
    /\ m_current = FloatPoint
    /\ m_start = FloatPoint
    /\ m_control1 = FloatPoint
    /\ m_control2 = FloatPoint
    /\ m_previous = FloatPoint
    /\ pc = "idle"
    /\ op = "none"
    /\ args = <<>>
    /\ ret = 0
    /\ curve = NoCurve
    /\ curveStack = <<>>
    /\ totalLength = 0
    /\ pre = PointFields
    /\ measured = <<>>
    /\ splits = 0
    /\ early = FALSE
    /\ linesOnly \in BOOLEAN
    /\ nSegs = 0
    /\ nCurves = 0
    /\ parent = NoCurve
    /\ prev = [op |-> "none", args |-> <<>>, ret |-> 0]
    /\ pathLength = 0

\* A traversal does not touch the controller.
Init ==
    /\ Constructed
    /\ timing = [port \in {D0TIM, D1TIM} |-> {}]
    /\ call = NoCall
    /\ nCalls = 0
    /\ lastPio = [devno \in Devices |-> NoCall]

\* The path iterator issues the next segment.
Issue(name, arguments) ==
    /\ pc = "idle"
    /\ nSegs < (IF linesOnly THEN MaxLineSegs ELSE MaxSegs)
    /\ op' = name
    /\ args' = arguments
    /\ pre' = PointFields
    /\ nSegs' = nSegs + 1
    /\ measured' = <<>>
    /\ splits' = 0
    /\ early' = FALSE
    /\ parent' = NoCurve
    /\ prev' = [op |-> op, args |-> args, ret |-> ret]
    /\ UNCHANGED <<linesOnly, sch>>

(***************************************************************************)
(* The segment operations.                                                 *)
(***************************************************************************)
\* closeSubpath with the reset of m_start made before the distance is taken.
closeSubpathResetFirst ==
    /\ Issue("closeSubpath", <<>>)
    /\ ret' = distanceLine(m_current, m_current)
    /\ m_start' = m_current
    /\ m_control1' = m_current
    /\ m_control2' = m_current
    /\ pc' = "returned"
    /\ UNCHANGED <<m_action, m_success, m_totalLength, m_segmentIndex,
                   m_desiredLength, m_normalAngle, m_current, m_previous,
                   locals, nCurves, pathLength>>

closeSubpath ==
    /\ Issue("closeSubpath", <<>>)
    /\ ret' = distanceLine(m_current, m_start)
    /\ m_start' = m_current
    /\ m_control1' = m_current
    /\ m_control2' = m_current
    /\ pc' = "returned"
    /\ UNCHANGED <<m_action, m_success, m_totalLength, m_segmentIndex,
                   m_desiredLength, m_normalAngle, m_current, m_previous>>
    /\ UNCHANGED <<locals, nCurves, pathLength>>

\* moveTo that leaves the two control points as they were.
moveToKeepingControls(point) ==
    /\ Issue("moveTo", <<point>>)
    /\ m_current' = point
    /\ m_start' = point
    /\ ret' = 0
    /\ pc' = "returned"
    /\ UNCHANGED <<m_action, m_success, m_totalLength, m_segmentIndex,
                   m_desiredLength, m_normalAngle, m_previous, m_control1,
                   m_control2, locals, nCurves, pathLength>>

moveTo(point) ==
    /\ Issue("moveTo", <<point>>)
    /\ m_current' = point
    /\ m_start' = point
    /\ m_control1' = point
    /\ m_control2' = point
    /\ ret' = 0
    /\ pc' = "returned"
    /\ UNCHANGED <<m_action, m_success, m_totalLength, m_segmentIndex,
                   m_desiredLength, m_normalAngle, m_previous>>
    /\ UNCHANGED <<locals, nCurves, pathLength>>

\* lineTo that keeps the point it leaves in m_previous.
lineToSettingPrevious(point) ==
    /\ Issue("lineTo", <<point>>)
    /\ ret' = distanceLine(m_current, point)
    /\ m_previous' = m_current
    /\ m_current' = point
    /\ m_control1' = point
    /\ m_control2' = point
    /\ pc' = "returned"
    /\ UNCHANGED <<m_action, m_success, m_totalLength, m_segmentIndex,
                   m_desiredLength, m_normalAngle, m_start, locals, nCurves,
                   pathLength>>

\* lineTo that adds the length of its segment to m_totalLength itself.
lineToAccumulating(point) ==
    /\ Issue("lineTo", <<point>>)
    /\ ret' = distanceLine(m_current, point)
    /\ m_totalLength' = m_totalLength + distanceLine(m_current, point)
    /\ m_current' = point
    /\ m_control1' = point
    /\ m_control2' = point
    /\ pc' = "returned"
    /\ UNCHANGED <<m_action, m_success, m_segmentIndex, m_desiredLength,
                   m_normalAngle, m_start, m_previous, locals, nCurves,
                   pathLength>>

\* lineTo measuring from the start of the subpath.
lineToFromStart(point) ==
    /\ Issue("lineTo", <<point>>)
    /\ ret' = distanceLine(m_start, point)
    /\ m_current' = point
    /\ m_control1' = point
    /\ m_control2' = point
    /\ pc' = "returned"
    /\ UNCHANGED <<m_action, m_success, m_totalLength, m_segmentIndex,
                   m_desiredLength, m_normalAngle, m_start, m_previous,
                   locals, nCurves, pathLength>>

lineTo(point) ==
    /\ Issue("lineTo", <<point>>)
    /\ ret' = distanceLine(m_current, point)
    /\ m_current' = point
    /\ m_control1' = point
    /\ m_control2' = point
    /\ pc' = "returned"
    /\ UNCHANGED <<m_action, m_success, m_totalLength, m_segmentIndex,
                   m_desiredLength, m_normalAngle, m_start, m_previous>>
    /\ UNCHANGED <<locals, nCurves, pathLength>>

\* curveLength's entry: the curve is copied onto the stack.
curveLengthEnter(c) ==
    /\ ~linesOnly
    /\ nCurves < MaxCurves
    /\ curve' = c
    /\ curveStack' = <<c>>
    /\ totalLength' = 0
    /\ nCurves' = nCurves + 1
    /\ pc' = "curveLength"
    /\ UNCHANGED <<fields, ret, pathLength>>

\* quadraticBezierTo up to its call of curveLength
quadraticBezierTo(newControl, newEnd) ==
    /\ Issue("quadraticBezierTo", <<newControl, newEnd>>)
    /\ curveLengthEnter(QuadraticBezier(m_current, newControl, newEnd))

\* cubicBezierTo up to its call of curveLength
cubicBezierTo(newControl1, newControl2, newEnd) ==
    /\ Issue("cubicBezierTo", <<newControl1, newControl2, newEnd>>)
    /\ curveLengthEnter(CubicBezier(m_current, newControl1, newControl2,
                                    newEnd))

(***************************************************************************)
(* curveLength's loop, one iteration per step.                             *)
(***************************************************************************)
\* the piece is not flat: it is split, the right half is pushed
\* curveLengthSplit that does not keep the right half.
curveLengthSplitDroppingRight ==
    /\ pc = "curveLength"
    /\ NeedsSplit(curve)
    /\ Len(curveStack) < MaxStack
    /\ curve' = split(curve)[1]
    /\ splits' = splits + 1
    /\ parent' = curve
    /\ UNCHANGED <<fields, pc, op, args, ret, totalLength, pre, measured,
                   early, linesOnly, sch, nSegs, nCurves, prev, pathLength,
                   curveStack>>

\* curveLengthSplit going on with the right half and keeping the left.
curveLengthSplitRightFirst ==
    /\ pc = "curveLength"
    /\ NeedsSplit(curve)
    /\ Len(curveStack) < MaxStack
    /\ curve' = split(curve)[2]
    /\ curveStack' = Append(curveStack, split(curve)[1])
    /\ splits' = splits + 1
    /\ parent' = curve
    /\ UNCHANGED <<fields, pc, op, args, ret, totalLength, pre, measured,
                   early, linesOnly, sch, nSegs, nCurves, prev, pathLength>>

curveLengthSplit ==
    /\ pc = "curveLength"
    /\ NeedsSplit(curve)
    /\ Len(curveStack) < MaxStack
    /\ curve' = split(curve)[1]
    /\ curveStack' = Append(curveStack, split(curve)[2])
    /\ splits' = splits + 1
    /\ parent' = curve
    /\ UNCHANGED <<fields, pc, op, args, ret, totalLength, pre, measured,
                   early, linesOnly, sch, nSegs, nCurves, prev, pathLength>>

\* ReturnsEarly of a loop that always runs to the end of the curve.
NeverReturnsEarly(length) == FALSE

\* ReturnsEarly of a point or angle query that stops at every flat piece.
AlwaysReturnsEarly(length) == IsPointOrAngle(m_action)

\* ReturnsEarly with the test made before the piece is added.
ReturnsEarlyBeforeAdding(length) ==
    /\ IsPointOrAngle(m_action)
    /\ m_totalLength + totalLength > m_desiredLength

\* Whether the return inside the loop is taken, the piece adding `length`.
ReturnsEarly(length) ==
    /\ IsPointOrAngle(m_action)
    /\ m_totalLength + (totalLength + length) > m_desiredLength

\* the piece is flat: it is measured; the loop is left at once in a point or
\* angle query whose length is passed, or else with the stack empty
curveLengthFlat ==
    /\ pc = "curveLength"
    /\ ~NeedsSplit(curve)
    /\ LET length == approximateDistance(curve)
       IN  /\ totalLength' = totalLength + length
           /\ measured' = Append(measured,
                  [start |-> curve.start, end |-> curve.end,
                   sum |-> totalLength + length])
           /\ IF IsPointOrAngle(m_action)
              THEN /\ m_previous' = curve.start
                   /\ m_current' = curve.end
              ELSE UNCHANGED <<m_previous, m_current>>
           /\ IF ReturnsEarly(length)
              THEN /\ early' = TRUE
                   /\ pc' = "curveReturn"
                   /\ UNCHANGED <<curve, curveStack>>
              ELSE /\ early' = FALSE
                   /\ curve' = curveStack[Len(curveStack)]
                   /\ curveStack' = SubSeq(curveStack, 1, Len(curveStack) - 1)
                   /\ pc' = IF Len(curveStack) = 1 THEN "curveReturn"
                            ELSE "curveLength"
    /\ UNCHANGED <<m_action, m_success, m_totalLength, m_segmentIndex,
                   m_desiredLength, m_normalAngle, m_start, m_control1,
                   m_control2>>
    /\ parent' = NoCurve
    /\ UNCHANGED <<op, args, ret, pre, splits, linesOnly, sch, nSegs, nCurves,
                   prev, pathLength>>

\* quadraticBezierTo after curveLength has returned
quadraticBezierToReturn ==
    /\ pc = "curveReturn"
    /\ op = "quadraticBezierTo"
    /\ ret' = totalLength
    /\ m_control1' = args[1]
    /\ m_control2' = args[2]
    /\ m_current' = IF ~IsPointOrAngle(m_action) THEN args[2] ELSE m_current
    /\ pc' = "returned"
    /\ curve' = NoCurve
    /\ curveStack' = <<>>
    /\ totalLength' = 0
    /\ UNCHANGED <<m_action, m_success, m_totalLength, m_segmentIndex,
                   m_desiredLength, m_normalAngle, m_start, m_previous>>
    /\ UNCHANGED <<op, args, linesOnly, sch, history>>

\* cubicBezierTo after curveLength has returned
\* cubicBezierToReturn keeping the two control points given.
cubicBezierToReturnKeepingArguments ==
    /\ pc = "curveReturn"
    /\ op = "cubicBezierTo"
    /\ ret' = totalLength
    /\ m_control1' = args[1]
    /\ m_control2' = args[2]
    /\ m_current' = IF ~IsPointOrAngle(m_action) THEN args[3] ELSE m_current
    /\ pc' = "returned"
    /\ curve' = NoCurve
    /\ curveStack' = <<>>
    /\ totalLength' = 0
    /\ UNCHANGED <<m_action, m_success, m_totalLength, m_segmentIndex,
                   m_desiredLength, m_normalAngle, m_start, m_previous,
                   op, args, linesOnly, sch, history>>

cubicBezierToReturn ==
    /\ pc = "curveReturn"
    /\ op = "cubicBezierTo"
    /\ ret' = totalLength
    /\ m_control1' = args[3]
    /\ m_control2' = args[2]
    /\ m_current' = IF ~IsPointOrAngle(m_action) THEN args[3] ELSE m_current
    /\ pc' = "returned"
    /\ curve' = NoCurve
    /\ curveStack' = <<>>
    /\ totalLength' = 0
    /\ UNCHANGED <<m_action, m_success, m_totalLength, m_segmentIndex,
                   m_desiredLength, m_normalAngle, m_start, m_previous>>
    /\ UNCHANGED <<op, args, linesOnly, sch, history>>

(***************************************************************************)
(* The path iterator, which owns the traversal: it adds each returned      *)
(* length to totalLength, marks a point or angle query successful once     *)
(* desiredLength is within the length traversed and then issues no more    *)
(* segments.                                                               *)
(***************************************************************************)
\* The length of a curve measured in full.
RECURSIVE curveLengthInFull(_, _)
curveLengthInFull(c, depth) ==
    IF NeedsSplit(c) /\ depth < MaxStack
    THEN curveLengthInFull(split(c)[1], depth + 1)
         + curveLengthInFull(split(c)[2], depth + 1)
    ELSE approximateDistance(c)

\* The length of the segment just issued, measured in full.
SegmentLengthInFull ==
    CASE op = "quadraticBezierTo" ->
             curveLengthInFull(
                 QuadraticBezier(pre.current, args[1], args[2]), 1)
      [] op = "cubicBezierTo" ->
             curveLengthInFull(
                 CubicBezier(pre.current, args[1], args[2], args[3]), 1)
      [] OTHER -> ret

addSegmentLength ==
    /\ pc = "returned"
    /\ m_totalLength' = m_totalLength + ret
    /\ pathLength' = pathLength + SegmentLengthInFull
    /\ IF IsPointOrAngle(m_action) /\ m_desiredLength <= m_totalLength + ret
       THEN /\ m_success' = TRUE
            /\ pc' = "done"
       ELSE /\ m_success' = m_success
            /\ pc' = "idle"
    /\ UNCHANGED <<m_action, m_segmentIndex, m_desiredLength, m_normalAngle,
                   m_current, m_start, m_control1, m_control2, m_previous>>
    /\ UNCHANGED <<op, args, ret, locals, pre, measured, splits, early,
                   parent, linesOnly, sch, nSegs, nCurves, prev>>

\* The path has no more segments.
endOfPath ==
    /\ pc = "idle"
    /\ pc' = "done"
    /\ UNCHANGED <<fields, op, args, ret, locals, linesOnly, sch, history>>

Next ==
    \/ closeSubpath
    \/ \E point \in Points : moveTo(point)
    \/ \E point \in Points : lineTo(point)
    \/ \E newControl \in Controls, newEnd \in Ends :
           quadraticBezierTo(newControl, newEnd)
    \/ \E newControl1 \in Controls, newControl2 \in Controls,
          newEnd \in Ends :
           cubicBezierTo(newControl1, newControl2, newEnd)
    \/ curveLengthSplit
    \/ curveLengthFlat
    \/ quadraticBezierToReturn
    \/ cubicBezierToReturn
    \/ addSegmentLength
    \/ endOfPath

Spec == Init /\ [][Next]_vars

(***************************************************************************)
(* pata_sch.c: sch_set_piomode and sch_set_dmamode.                        *)
(***************************************************************************)
\* The register of the device: adev->devno ? D1TIM : D0TIM.
Port(devno) == IF devno # 0 THEN D1TIM ELSE D0TIM

\* The value without the PIO mode field only: the prefetch/post enable of
\* an earlier call survives.
PioTimingKeepingPrefetch(data, pio, class) ==
    LET cleared == data \cap BitNot(PM)
        withMode == cleared \cup BitsOf(pio)
    IN  IF class = "ATA_DEV_ATA" THEN withMode \cup PPE ELSE withMode

\* The value sch_set_piomode writes back: the PIO mode field and the
\* prefetch/post enable cleared, the mode set, and prefetch/post enabled
\* for a disk only.
PioTiming(data, pio, class) ==
    LET cleared == data \cap BitNot(PM \cup PPE)
        withMode == cleared \cup BitsOf(pio)
    IN  IF class = "ATA_DEV_ATA" THEN withMode \cup PPE ELSE withMode

\* The value with the whole word cleared before the mode is set.
DmaTimingFromZero(data, dma_mode) ==
    IF dma_mode >= XFER_UDMA_0
    THEN USD \cup ShiftLeft(BitsOf(dma_mode - XFER_UDMA_0), 16)
    ELSE ShiftLeft(BitsOf(dma_mode - XFER_MW_DMA_0), 8)

\* The value sch_set_dmamode writes back: for an Ultra DMA mode,
\* synchronous DMA on and the mode in the UDM field; for a multi-word DMA
\* mode, synchronous DMA off and the mode in the MDM field.
DmaTiming(data, dma_mode) ==
    IF dma_mode >= XFER_UDMA_0
    THEN ((data \cup USD) \cap BitNot(UDM))
             \cup ShiftLeft(BitsOf(dma_mode - XFER_UDMA_0), 16)
    ELSE (data \cap BitNot(USD \cup MDM))
             \cup ShiftLeft(BitsOf(dma_mode - XFER_MW_DMA_0), 8)

\* The controller as the driver finds it: any of the register values in
\* each register, and no traversal in progress.
SchInit ==
    /\ Constructed
    /\ m_action = "TraversalTotalLength"
    /\ m_desiredLength = 0
    /\ linesOnly
    /\ timing \in [{D0TIM, D1TIM} -> RegisterValues]
    /\ call = NoCall
    /\ nCalls = 0
    /\ lastPio = [devno \in Devices |-> NoCall]

sch_set_piomode(devno, pio_mode, class) ==
    LET pio == pio_mode - XFER_PIO_0
        port == Port(devno)
        data == timing[port]
    IN  /\ nCalls < MaxCalls
        /\ timing' = [timing EXCEPT ![port] = PioTiming(data, pio, class)]
        /\ call' = [name |-> "sch_set_piomode", devno |-> devno,
                    mode |-> pio_mode, class |-> class, before |-> timing]
        /\ lastPio' = [lastPio EXCEPT ![devno] = call']
        /\ nCalls' = nCalls + 1
        /\ UNCHANGED path

sch_set_dmamode(devno, dma_mode) ==
    LET port == Port(devno)
        data == timing[port]
    IN  /\ nCalls < MaxCalls
        /\ timing' = [timing EXCEPT ![port] = DmaTiming(data, dma_mode)]
        /\ call' = [name |-> "sch_set_dmamode", devno |-> devno,
                    mode |-> dma_mode, class |-> "none", before |-> timing]
        /\ nCalls' = nCalls + 1
        /\ UNCHANGED <<lastPio, path>>

SchNext ==
    \/ \E devno \in Devices, pio_mode \in PioModes, class \in Classes :
           sch_set_piomode(devno, pio_mode, class)
    \/ \E devno \in Devices, dma_mode \in DmaModes :
           sch_set_dmamode(devno, dma_mode)

SpecSch == SchInit /\ [][SchNext]_vars

\* The bound on curveStack never stops a subdivision.
StackBoundNotReached ==
    pc = "curveLength" /\ NeedsSplit(curve) => Len(curveStack) < MaxStack

(***************************************************************************)
(* Properties.                                                             *)
(***************************************************************************)
IsCurveOp == op \in {"quadraticBezierTo", "cubicBezierTo"}

\* A curve operation is running or has just returned.
InCurveOp == IsCurveOp /\ pc \in {"curveLength", "curveReturn", "returned"}

\* The end point given to the curve operation.
CurveEnd == args[Len(args)]

LastMeasured == measured[Len(measured)]

\* C1: in a point or angle query the subdivision returns at the first flat
\* piece, in start-to-end order, with which m_totalLength plus the running
\* length passes desiredLength: the pieces measured so far follow one
\* another from the start of the curve, every piece but the last left the
\* sum at or below desiredLength, and once the last one passes it the loop
\* is left at once (no later piece is measured) with previous and current
\* the ends of that piece and its running length returned; the loop is left
\* with pieces still on the stack only in that case.
C1_ReturnsAtFirstPiecePastDesiredLength ==
    InCurveOp /\ IsPointOrAngle(m_action) /\ measured # <<>> =>
        LET n == Len(measured)
        IN  /\ measured[1].start = pre.current
            /\ \A i \in 1..(n - 1) :
                   /\ measured[i + 1].start = measured[i].end
                   /\ m_totalLength + measured[i].sum <= m_desiredLength
            /\ m_totalLength + measured[n].sum > m_desiredLength =>
                   /\ pc # "curveLength"
                   /\ m_previous = measured[n].start
                   /\ m_current = measured[n].end
                   /\ pc = "curveReturn" => totalLength = measured[n].sum
                   /\ pc = "returned" => ret = measured[n].sum
            /\ pc = "curveReturn" /\ curveStack # <<>> =>
                   m_totalLength + measured[n].sum > m_desiredLength

\* C1's case: after a line of positive length, a curve is left at its
\* second piece or later, with pieces still unmeasured.
C1_Witness ==
    /\ pc = "curveReturn"
    /\ IsPointOrAngle(m_action)
    /\ m_totalLength > 0
    /\ Len(measured) >= 2
    /\ Len(curveStack) >= 2
    /\ m_totalLength + LastMeasured.sum > m_desiredLength

Abs(n) == IF n < 0 THEN -n ELSE n

\* The length of the path at the start of the segment of the operation.
SegmentStartLength == pathLength - SegmentLengthInFull

\* The length of the path from its start to the point current, when the
\* operation has returned: closeSubpath leaves current at the start of the
\* closing segment, a curve in a point or angle query at the end of the
\* last piece it measured, and every other operation at the end of its
\* segment.
LengthToCurrent ==
    CASE op = "closeSubpath" -> SegmentStartLength
      [] IsCurveOp /\ IsPointOrAngle(m_action) ->
             SegmentStartLength + LastMeasured.sum
      [] OTHER -> pathLength

\* The length of the line segment, or of the flat piece of a curve, that
\* the operation measured last.
LastPieceLength ==
    IF IsCurveOp
    THEN LastMeasured.sum
             - (IF Len(measured) = 1 THEN 0
                ELSE measured[Len(measured) - 1].sum)
    ELSE ret

\* The point the operation leaves current at in a point query.
PointLeftCurrent ==
    CASE op = "closeSubpath" -> pre.current
      [] IsCurveOp -> LastMeasured.end
      [] OTHER -> args[1]

\* C2 as stated: a point query for half the length L > 0 of the path ends
\* with success and with current within the tolerance of L/2 along the
\* path.
C2_Original ==
    /\ pc = "done"
    /\ m_action = "TraversalPointAtLength"
    /\ pathLength > 0
    /\ m_desiredLength = Half(pathLength)
    => /\ m_success
       /\ Abs(LengthToCurrent - m_desiredLength)
              <= kPathSegmentLengthTolerance

\* C2: a point query for half the length L > 0 of a path ends with
\* success, and with current at an end of the line segment or flat curve
\* piece on which the length L/2 falls (the far end after lineTo and after
\* a curve, the near end after closeSubpath), so that the length of the
\* path up to current is within the length of that segment or piece of
\* L/2.  The segments after the one the query stops in are skipped by the
\* caller, so the segments processed are the beginning of a path of any
\* length L at least theirs.
C2_CurrentEndsThePieceHoldingHalf ==
    pc = "done" /\ m_action = "TraversalPointAtLength"
        /\ m_desiredLength > 0 =>
        /\ m_desiredLength = Half(pathLength) => m_success
        /\ m_success /\ m_desiredLength >= Half(pathLength) =>
               /\ m_current = PointLeftCurrent
               /\ IF op = "closeSubpath"
                  THEN /\ LengthToCurrent <= m_desiredLength
                       /\ m_desiredLength <= LengthToCurrent + LastPieceLength
                  ELSE /\ LengthToCurrent - LastPieceLength <= m_desiredLength
                       /\ m_desiredLength <= LengthToCurrent

\* C2's case: the query stops inside a curve, at its second piece or later
\* and away from the half length by more than the tolerance.
C2_Witness ==
    /\ pc = "done"
    /\ m_action = "TraversalPointAtLength"
    /\ m_success
    /\ IsCurveOp
    /\ Len(measured) >= 2
    /\ m_desiredLength > 0
    /\ m_desiredLength >= Half(pathLength)
    /\ LengthToCurrent - m_desiredLength > kPathSegmentLengthTolerance

\* The end point of the segment of the operation: the start of the subpath
\* for closeSubpath, the point given for moveTo and lineTo, the end point
\* given for a curve.
SegmentEnd ==
    IF op = "closeSubpath" THEN pre.start ELSE args[Len(args)]

\* C3 as stated: after every segment operation current is the end point
\* of its segment (for closeSubpath the start of the subpath), except
\* after a curve operation that returned early in a point or angle query.
C3_Original ==
    pc = "returned" /\ ~(IsCurveOp /\ IsPointOrAngle(m_action) /\ early) =>
        m_current = SegmentEnd

\* r is the square root of n rounded to the nearest integer.
IsNearestRoot(r, n) ==
    /\ r >= 0
    /\ 4 * n < (2 * r + 1) * (2 * r + 1)
    /\ r = 0 \/ (2 * r - 1) * (2 * r - 1) <= 4 * n

\* r is the distance between the points a and b.
IsDistance(r, a, b) ==
    IsNearestRoot(r, (b[1] - a[1]) * (b[1] - a[1])
                         + (b[2] - a[2]) * (b[2] - a[2]))

\* C4: closeSubpath returns the distance from current to the value m_start
\* had before the call, and leaves m_start = m_control1 = m_control2 =
\* current with current unchanged; so after a subpath of lineTo operations
\* alone that began at s (moveTo(s), or the initial point) it returns the
\* distance from the last point to s, and for the triangle s = (0,0),
\* (3,0), (3,4) on the grid the lengths 3, 4, 5 add up to 12.
C4_CloseSubpathMeasuresToOldStart ==
    pc = "returned" /\ op = "closeSubpath" =>
        /\ IsDistance(ret, pre.current, pre.start)
        /\ m_current = pre.current
        /\ m_start = m_current
        /\ m_control1 = m_current
        /\ m_control2 = m_current
        /\ prev.op = "lineTo" => IsDistance(ret, prev.args[1], pre.start)
        /\ /\ prev.op = "lineTo"
           /\ prev.args[1] = <<3 * Grid, 4 * Grid>>
           /\ pre.start = <<0, 0>>
           => ret = 5 * Grid
        /\ /\ prev.op = "lineTo"
           /\ prev.args[1] = <<3 * Grid, 4 * Grid>>
           /\ prev.ret = 4 * Grid
           /\ pre.start = <<0, 0>>
           /\ m_totalLength = 7 * Grid
           => m_totalLength + ret = 12 * Grid

\* C4's case: the triangle (0,0), (3,0), (3,4) is closed.
C4_Witness ==
    /\ pc = "returned"
    /\ op = "closeSubpath"
    /\ linesOnly
    /\ pre.start = <<0, 0>>
    /\ prev = [op |-> "lineTo", args |-> <<<<3 * Grid, 4 * Grid>>>>,
               ret |-> 4 * Grid]
    /\ m_totalLength = 7 * Grid
    /\ ret = 5 * Grid

\* C5: every segment operation returns a length >= 0 in every mode, and
\* no step of the traversal decreases m_totalLength.
C5_LengthsNonNegativeTotalMonotone ==
    /\ [](pc = "returned" => ret >= 0)
    /\ [][m_totalLength' >= m_totalLength]_vars

\* C5's case: a curve of positive length has been added after a segment
\* of positive length.
C5_Witness ==
    /\ pc = "idle"
    /\ IsCurveOp
    /\ ret > 0
    /\ prev.ret > 0
    /\ m_totalLength >= ret + prev.ret

Chord == distanceLine(pre.current, CurveEnd)

Degenerate ==
    IsCurveOp /\ \A i \in 1..Len(args) : args[i] = pre.current

\* C8: a curve whose points are all one point is flat at once: the loop
\* never splits, measures one piece of length 0 and ends, and the
\* operation returns 0, in every mode.
C8_DegenerateCurveOneIterationLengthZero ==
    InCurveOp /\ Degenerate =>
        /\ splits = 0
        /\ totalLength = 0
        /\ pc = "curveLength" =>
               /\ measured = <<>>
               /\ curve.start = pre.current
               /\ curve.end = pre.current
               /\ curveStack = <<curve>>
        /\ pc # "curveLength" =>
               /\ Len(measured) = 1
               /\ measured[1].sum = 0
        /\ pc = "returned" => ret = 0

\* C8's case: a degenerate cubic has returned in an angle query.
C8_Witness ==
    /\ pc = "returned"
    /\ op = "cubicBezierTo"
    /\ Degenerate
    /\ m_action = "TraversalNormalAngleAtLength"
    /\ m_desiredLength > 0
    /\ Len(measured) = 1

\* C9: moveTo returns 0 and lineTo(p) returns the distance from current to
\* p, in every mode and without any subdivision; in a path of moveTo and
\* lineTo alone current is the point of the operation before, so each
\* returned length is the distance between two consecutive points of the
\* path and m_totalLength is their sum.
C9_LinesMeasuredExactly ==
    /\ pc = "returned" /\ op = "moveTo" => ret = 0
    /\ pc = "returned" /\ op = "lineTo" =>
           /\ IsDistance(ret, pre.current, args[1])
           /\ prev.op \in {"moveTo", "lineTo"} =>
                  IsDistance(ret, prev.args[1], args[1])
    /\ op \in {"moveTo", "lineTo"} =>
           /\ pc \notin {"curveLength", "curveReturn"}
           /\ measured = <<>>
           /\ splits = 0
           /\ curveStack = <<>>
    /\ /\ linesOnly
       /\ pc = "idle"
       /\ op \in {"moveTo", "lineTo"}
       /\ prev.op \in {"moveTo", "lineTo"}
       => /\ m_totalLength = pathLength
          /\ m_totalLength >= ret + prev.ret

\* C9's case: in a point query of a path of lines, a second lineTo of
\* positive length has returned.
C9_Witness ==
    /\ linesOnly
    /\ pc = "returned"
    /\ op = "lineTo"
    /\ prev.op = "lineTo"
    /\ m_action = "TraversalPointAtLength"
    /\ ret > 0
    /\ prev.ret > 0
    /\ nSegs >= 3

\* m is the average of a and b, rounded to even when it falls half way
\* between two values.
IsAverage(m, a, b) ==
    \/ 2 * m = a + b
    \/ Abs(2 * m - (a + b)) = 1 /\ m % 2 = 0

\* The point m is the midpoint of the points a and b.
IsMid(m, a, b) == IsAverage(m[1], a[1], b[1]) /\ IsAverage(m[2], a[2], b[2])

\* The points that can be the midpoint of a and b.
NearMid(a, b) ==
    {<<(a[1] + b[1]) \div 2 + dx, (a[2] + b[2]) \div 2 + dy>> :
        dx \in -1..1, dy \in -1..1}

\* Every coordinate of the points of the curve c is a multiple of n.
OnMultiplesOf(n, c) ==
    \A p \in IF c.kind = "quadratic" THEN {c.start, c.control, c.end}
             ELSE {c.start, c.control1, c.control2, c.end} :
        p[1] % n = 0 /\ p[2] % n = 0

\* The two halves of the curve split last: the left one is the piece the
\* loop goes on with, the right one the piece it pushed.
left == curve
right == curveStack[Len(curveStack)]

\* C10: the two halves of a split are the De Casteljau subdivision of the
\* parent at 1/2: the left starts where the parent starts, the right ends
\* where it ends, the left ends where the right starts, and the inner
\* control points are midpoints of the parent's adjacent points (first
\* level) and midpoints of those (second level), the junction of a cubic
\* being the midpoint of the two second-level points; where no average is
\* rounded the junction is (s + 2c + e)/4 for a quadratic and
\* (s + 3c1 + 3c2 + e)/8 for a cubic.
C10_SplitIsDeCasteljauAtHalf ==
    pc = "curveLength" /\ parent # NoCurve =>
        /\ left.kind = parent.kind
        /\ right.kind = parent.kind
        /\ left.start = parent.start
        /\ right.end = parent.end
        /\ left.end = right.start
        /\ parent.kind = "quadratic" =>
               /\ IsMid(left.control, parent.start, parent.control)
               /\ IsMid(right.control, parent.control, parent.end)
               /\ IsMid(left.end, left.control, right.control)
               /\ OnMultiplesOf(4, parent) =>
                      \A i \in 1..2 :
                          4 * left.end[i] = parent.start[i]
                              + 2 * parent.control[i] + parent.end[i]
        /\ parent.kind = "cubic" =>
               /\ IsMid(left.control1, parent.start, parent.control1)
               /\ IsMid(right.control2, parent.control2, parent.end)
               /\ \E m \in NearMid(parent.control1, parent.control2) :
                      /\ IsMid(m, parent.control1, parent.control2)
                      /\ IsMid(left.control2, left.control1, m)
                      /\ IsMid(right.control1, m, right.control2)
               /\ IsMid(left.end, left.control2, right.control1)
               /\ OnMultiplesOf(8, parent) =>
                      \A i \in 1..2 :
                          8 * left.end[i] = parent.start[i]
                              + 3 * parent.control1[i]
                              + 3 * parent.control2[i] + parent.end[i]

\* C10's case: a cubic that is itself a half of a split has been split,
\* with averages that had to be rounded.
C10_Witness ==
    /\ pc = "curveLength"
    /\ parent # NoCurve
    /\ parent.kind = "cubic"
    /\ splits >= 2
    /\ parent.start # parent.end
    /\ ~OnMultiplesOf(8, parent)

\* The length of the control polygon of the piece c: start, control
\* point or points, end.
PolygonLength(c) ==
    IF c.kind = "quadratic"
    THEN distanceLine(c.start, c.control) + distanceLine(c.control, c.end)
    ELSE distanceLine(c.start, c.control1)
             + distanceLine(c.control1, c.control2)
             + distanceLine(c.control2, c.end)

\* The loop measures the piece it holds in this step.
MeasuresPiece == pc = "curveLength" /\ Len(measured') = Len(measured) + 1

\* C11 as stated: the amount added to the running length for a flat piece
\* is the distance between its start and its end.
C11_Original ==
    InCurveOp /\ measured # <<>> =>
        LastPieceLength = distanceLine(LastMeasured.start, LastMeasured.end)

\* C11: the amount added to the running length for a flat piece is the
\* length of its control polygon, which is at least the distance between
\* its ends less the rounding of the distances and exceeds it by no more
\* than the tolerance.
C11_FlatPieceAddsPolygonLength ==
    [][MeasuresPiece =>
          LET added == totalLength' - totalLength
              chord == distanceLine(curve.start, curve.end)
          IN  /\ added = PolygonLength(curve)
              /\ added - chord <= kPathSegmentLengthTolerance
              /\ 2 * added + 4 >= 2 * chord
              /\ measured'[Len(measured')].sum = totalLength'
              /\ measured'[Len(measured')].start = curve.start
              /\ measured'[Len(measured')].end = curve.end]_vars

\* C11's case: a piece obtained by splitting was measured, and what was
\* added for it is more than the distance between its ends.
C11_Witness ==
    /\ InCurveOp
    /\ splits > 0
    /\ measured # <<>>
    /\ LastPieceLength > distanceLine(LastMeasured.start, LastMeasured.end)

\* The point of the curve up to which the loop has measured.
MeasuredUpTo == IF measured = <<>> THEN pre.current ELSE LastMeasured.end

\* C12: the loop goes through the pieces depth-first, left half first, in
\* every mode: the pieces measured follow one another from the start of
\* the curve, the piece in hand starts where the last measured one ended,
\* the pieces waiting on the stack follow it in order from the top down to
\* the end of the curve, and a loop that ends without early return has
\* measured up to the end of the curve.
C12_PiecesMeasuredInCurveOrder ==
    InCurveOp =>
        /\ measured # <<>> => measured[1].start = pre.current
        /\ \A i \in 1..(Len(measured) - 1) :
               measured[i + 1].start = measured[i].end
        /\ pc = "curveLength" =>
               /\ curve.start = MeasuredUpTo
               /\ curveStack[1].start = pre.current
               /\ curveStack[1].end = CurveEnd
               /\ IF Len(curveStack) = 1
                  THEN curve.end = CurveEnd
                  ELSE /\ curve.end = curveStack[Len(curveStack)].start
                       /\ curveStack[2].end = CurveEnd
               /\ \A k \in 3..Len(curveStack) :
                      curveStack[k].end = curveStack[k - 1].start
        /\ pc # "curveLength" /\ ~early => MeasuredUpTo = CurveEnd

\* C12's case: a length query has measured a curve in four pieces or
\* more, from its start to its end.
C12_Witness ==
    /\ pc = "returned"
    /\ IsCurveOp
    /\ m_action = "TraversalTotalLength"
    /\ ~early
    /\ Len(measured) >= 4
    /\ CurveEnd # pre.current
    /\ measured[1].start = pre.current
    /\ LastMeasured.end = CurveEnd

\* C13: when moveTo(p) returns, in any sequence and mode, the start of the
\* subpath and the two control points all equal p, current equals p and
\* the value returned is 0; when closeSubpath returns they all equal
\* current.
C13_MoveAndCloseResetStartAndControls ==
    /\ pc = "returned" /\ op = "moveTo" =>
           /\ m_start = args[1]
           /\ m_control1 = args[1]
           /\ m_control2 = args[1]
           /\ m_current = args[1]
           /\ ret = 0
    /\ pc = "returned" /\ op = "closeSubpath" =>
           /\ m_start = m_current
           /\ m_control1 = m_current
           /\ m_control2 = m_current

\* C13's case: moveTo has returned after a cubic that left the start and
\* the two control points at three different points, none of them the
\* point moved to.
C13_Witness ==
    /\ pc = "returned"
    /\ op = "moveTo"
    /\ prev.op = "cubicBezierTo"
    /\ pre.control1 # pre.control2
    /\ pre.start # pre.control1
    /\ pre.start # pre.control2
    /\ args[1] \notin {pre.start, pre.control1, pre.control2}

\* C14: when cubicBezierTo(c1, c2, e) returns, in every mode and after an
\* early return as well, control1 is e and control2 is c2; when
\* quadraticBezierTo(c, e) returns, control1 is c and control2 is e; in a
\* length query both leave current at e.
C14_CurveOperationsSetControls ==
    /\ pc = "returned" /\ op = "cubicBezierTo" =>
           /\ m_control1 = args[3]
           /\ m_control2 = args[2]
    /\ pc = "returned" /\ op = "quadraticBezierTo" =>
           /\ m_control1 = args[1]
           /\ m_control2 = args[2]
    /\ pc = "returned" /\ IsCurveOp /\ m_action = "TraversalTotalLength" =>
           m_current = CurveEnd

\* C14's case: a cubic given three different points has returned early in
\* a point query, before its end.
C14_Witness ==
    /\ pc = "returned"
    /\ op = "cubicBezierTo"
    /\ m_action = "TraversalPointAtLength"
    /\ early
    /\ args[1] # args[2]
    /\ args[1] # args[3]
    /\ args[2] # args[3]
    /\ m_current # args[3]

\* C15: no segment operation and no step of the subdivision writes
\* m_action, m_totalLength, m_desiredLength, m_success, m_segmentIndex or
\* m_normalAngle: every step of an operation leaves the six as they were,
\* the action never changes during a traversal, and m_totalLength changes
\* only in the step in which the caller adds the length an operation
\* returned.
C15_OperationsLeaveTotalsAlone ==
    [][/\ m_action' = m_action
       /\ pc # "returned" =>
              /\ m_totalLength' = m_totalLength
              /\ m_desiredLength' = m_desiredLength
              /\ m_success' = m_success
              /\ m_segmentIndex' = m_segmentIndex
              /\ m_normalAngle' = m_normalAngle
       /\ pc = "returned" => m_totalLength' = m_totalLength + ret]_vars

\* C15's case: in an angle query, after a segment of positive length was
\* added, a curve has split, measured pieces and returned early.
C15_Witness ==
    /\ pc = "returned"
    /\ IsCurveOp
    /\ m_action = "TraversalNormalAngleAtLength"
    /\ early
    /\ splits > 0
    /\ ret > 0
    /\ m_totalLength = prev.ret
    /\ m_totalLength > 0
    /\ ~m_success
    /\ m_segmentIndex = 0
    /\ m_normalAngle = 0

\* The curve given to curveLength by the operation.
OriginalCurve ==
    IF op = "quadraticBezierTo"
    THEN QuadraticBezier(pre.current, args[1], args[2])
    ELSE CubicBezier(pre.current, args[1], args[2], args[3])

\* The piece c is flat: its control polygon is longer than the distance
\* between its ends by no more than the tolerance.
IsFlat(c) ==
    PolygonLength(c) - distanceLine(c.start, c.end)
        <= kPathSegmentLengthTolerance

\* The number of steps the loop takes for the piece c: one to measure it
\* if it is flat, else one to split it and those of its two halves.
RECURSIVE StepsFor(_, _)
StepsFor(c, depth) ==
    IF IsFlat(c) \/ depth >= MaxStack
    THEN 1
    ELSE 1 + StepsFor(split(c)[1], depth + 1)
           + StepsFor(split(c)[2], depth + 1)

\* The steps for the pieces on the stack from the k-th up, the copy of the
\* curve at the bottom left out.
RECURSIVE StepsForStack(_)
StepsForStack(k) ==
    IF k > Len(curveStack) THEN 0
    ELSE StepsFor(curveStack[k], 1) + StepsForStack(k + 1)

\* The number of steps the loop has left when it runs to the end: those
\* for the piece in hand and for the pieces waiting.
StepsLeft == StepsFor(curve, 1) + StepsForStack(2)

\* C16: the loop of curveLength ends: every step is a split or the
\* measuring of a piece, and the steps taken and the steps left add up to
\* the number of steps for the curve given.  While it runs the copy of the
\* curve given stays at the bottom of the stack, and the pieces measured
\* and the pieces waiting are the leaves so far of the tree of the splits;
\* a piece is measured only if it is flat and split only if it is not.  A
\* loop that ends without early return has emptied the stack, taking the
\* copy last without measuring it, has measured each of the splits + 1
\* leaves once, and returns the sum of the lengths of the leaves.
C16_LoopEndsHavingMeasuredEveryLeafOnce ==
    /\ [](pc = "curveLength" =>
              /\ curveStack # <<>>
              /\ curveStack[1] = OriginalCurve
              /\ Len(measured) + Len(curveStack) = splits + 1)
    /\ [](pc \in {"curveReturn", "returned"} /\ IsCurveOp /\ ~early =>
              /\ Len(measured) = splits + 1
              /\ LastMeasured.sum = curveLengthInFull(OriginalCurve, 1)
              /\ pc = "curveReturn" =>
                     /\ curveStack = <<>>
                     /\ curve = OriginalCurve
                     /\ totalLength = LastMeasured.sum
              /\ pc = "returned" => ret = LastMeasured.sum)
    /\ [](pc = "curveLength" =>
              /\ StackBoundNotReached
              /\ StepsLeft >= 1
              /\ splits + Len(measured) + StepsLeft
                     = StepsFor(OriginalCurve, 1))
    /\ [](pc \in {"curveReturn", "returned"} /\ IsCurveOp /\ ~early =>
              splits + Len(measured) = StepsFor(OriginalCurve, 1))
    /\ [][pc = "curveLength" =>
              /\ pc' \in {"curveLength", "curveReturn"}
              /\ IF IsFlat(curve)
                 THEN MeasuresPiece /\ splits' = splits
                 ELSE splits' = splits + 1 /\ measured' = measured]_vars

\* C16's case: a loop that split three times or more has ended without
\* early return, the stack empty.
C16_Witness ==
    /\ pc = "curveReturn"
    /\ IsCurveOp
    /\ ~early
    /\ splits >= 3
    /\ Len(measured) = splits + 1
    /\ curveStack = <<>>

\* C17: among the steps of the operations only the measuring of a piece in
\* a point or angle query writes m_previous (the start of the piece):
\* moveTo, lineTo and closeSubpath return with m_previous as it was, in a
\* length query no operation changes it and no step of the subdivision
\* changes any field, and closeSubpath returns with current as it was.
C17_PreviousWrittenOnlyByPointQuerySubdivision ==
    /\ [](pc = "returned" /\ op \in {"moveTo", "lineTo", "closeSubpath"} =>
              m_previous = pre.previous)
    /\ [](pc = "returned" /\ op = "closeSubpath" => m_current = pre.current)
    /\ [](m_action = "TraversalTotalLength" => m_previous = FloatPoint)
    /\ [][pc # "returned" =>
              /\ m_previous' # m_previous =>
                     /\ IsPointOrAngle(m_action)
                     /\ MeasuresPiece
                     /\ m_previous' = curve.start
              /\ m_action = "TraversalTotalLength" /\ pc = "curveLength" =>
                     fields' = fields]_vars

\* C17's case: in a point query closeSubpath has returned after a curve
\* whose subdivision had moved m_previous.
C17_Witness ==
    /\ pc = "returned"
    /\ op = "closeSubpath"
    /\ m_action = "TraversalPointAtLength"
    /\ prev.op \in {"quadraticBezierTo", "cubicBezierTo"}
    /\ m_previous # FloatPoint
    /\ m_previous = pre.previous
    /\ m_current # pre.start


(***************************************************************************)
(* The timing registers of pata_sch.c.                                     *)
(***************************************************************************)
Bit(w, i) == IF i \in w THEN 1 ELSE 0
\* The number in the two, or three, bits of w from bit lo up.
Field2(w, lo) == Bit(w, lo) + 2 * Bit(w, lo + 1)
Field3(w, lo) == Field2(w, lo) + 4 * Bit(w, lo + 2)
\* The words a and b agree on every bit outside the set of positions.
SameOutside(a, b, positions) ==
    \A i \in WordBits \ positions : i \in a <=> i \in b

LastIsPio == call.name = "sch_set_piomode"
LastIsDma == call.name = "sch_set_dmamode"
LastIsUdma == LastIsDma /\ call.mode >= XFER_UDMA_0
LastIsMwdma == LastIsDma /\ call.mode < XFER_UDMA_0
\* The register of the device of the last call, after and before it, and
\* the register of the other device.
After == timing[Port(call.devno)]
Before == call.before[Port(call.devno)]
OtherPort == IF call.devno # 0 THEN D0TIM ELSE D1TIM

\* C18: sch_set_piomode for a device with PIO mode p in 0..4 rewrites only
\* the timing register of that device (D0TIM for devno 0, D1TIM
\* otherwise): afterwards bits 0-2 hold p, bit 30 is set exactly when the
\* device is ATA_DEV_ATA, every other bit is as it was, and the register
\* of the other device is as it was.
C18_PioModeRewritesModeAndPrefetchOnly ==
    LastIsPio =>
        /\ Port(call.devno) = (IF call.devno = 0 THEN D0TIM ELSE D1TIM)
        /\ Field3(After, 0) = call.mode - XFER_PIO_0
        /\ 30 \in After <=> call.class = "ATA_DEV_ATA"
        /\ SameOutside(After, Before, {0, 1, 2, 30})
        /\ timing[OtherPort] = call.before[OtherPort]

\* Device 1, not a disk, is given a PIO mode after an earlier call, while
\* its register has prefetch/post enabled, another PIO mode, synchronous
\* DMA on and a multi-word DMA mode, and the other register is not zero.
C18_Witness ==
    /\ LastIsPio
    /\ nCalls = 2
    /\ call.devno = 1
    /\ call.class = "ATA_DEV_ATAPI"
    /\ 30 \in Before
    /\ 31 \in Before
    /\ Field2(Before, 8) # 0
    /\ Field3(Before, 0) # call.mode - XFER_PIO_0
    /\ call.mode - XFER_PIO_0 = 4
    /\ timing[OtherPort] # {}

\* C19: sch_set_dmamode, on the register of the device: for Ultra DMA
\* mode k in 0..5 bit 31 is set, bits 16-18 hold k and every other bit is
\* as it was; for multi-word DMA mode m in 0..2 bit 31 is clear, bits 8-9
\* hold m and every other bit is as it was; and after any calls bits 0-2
\* and bit 30 of a register are what the last sch_set_piomode for its
\* device wrote.
C19_DmaModeRewritesItsFieldAndKeepsPio ==
    /\ LastIsUdma =>
           /\ 31 \in After
           /\ Field3(After, 16) = call.mode - XFER_UDMA_0
           /\ SameOutside(After, Before, {16, 17, 18, 31})
    /\ LastIsMwdma =>
           /\ 31 \notin After
           /\ Field2(After, 8) = call.mode - XFER_MW_DMA_0
           /\ SameOutside(After, Before, {8, 9, 31})
    /\ \A devno \in Devices :
           lastPio[devno] # NoCall =>
               /\ Field3(timing[Port(devno)], 0)
                      = lastPio[devno].mode - XFER_PIO_0
               /\ 30 \in timing[Port(devno)]
                      <=> lastPio[devno].class = "ATA_DEV_ATA"

\* A disk on device 0 is given PIO mode 3 and then multi-word DMA mode 1,
\* with synchronous DMA on, an Ultra DMA mode and another multi-word DMA
\* mode in its register before the second call.
C19_Witness ==
    /\ LastIsMwdma
    /\ call.devno = 0
    /\ call.mode - XFER_MW_DMA_0 = 1
    /\ lastPio[0] # NoCall
    /\ lastPio[0].mode - XFER_PIO_0 = 3
    /\ lastPio[0].class = "ATA_DEV_ATA"
    /\ 31 \in Before
    /\ Field3(Before, 16) # 0
    /\ Field2(Before, 8) # 1

================================================================
